---- MODULE Spec2Model ----
(***************************************************************************)
(* The two PDF text extraction command-line programs of the repository:    *)
(*   "json"    : src/pdf-parser.py          (main, extract_text_from_pdf)  *)
(*   "console" : src/scripts/pdf_parser.py  (main, parse_pdf)              *)
(* A run is a sequential process; every statement that can raise is a      *)
(* step whose outcome (returns / raises) is chosen nondeterministically.   *)
(* The file system (output directory, output file) persists across runs.   *)
(***************************************************************************)
EXTENDS Integers, Sequences, FiniteSets, TLC

\* ---------------------------------------------------------------- bounds
MaxPages == 2
MaxRuns == 2

\* ------------------------------------------------------- text and tokens
\* Page texts returned by get_text_range(): empty, whitespace only, plain,
\* and text wrapped in whitespace.
PageTexts == { <<>>, <<" ">>, <<"a">>, <<"\n", "a", " ">> }

IsSpace(c) == c \in {" ", "\n", "\t"}

\* str.strip(): drop leading and trailing whitespace.
RECURSIVE LStrip(_)
LStrip(s) == IF s = <<>> THEN <<>>
             ELSE IF IsSpace(Head(s)) THEN LStrip(Tail(s)) ELSE s

RECURSIVE RStrip(_)
RStrip(s) == IF s = <<>> THEN <<>>
             ELSE IF IsSpace(s[Len(s)]) THEN RStrip(SubSeq(s, 1, Len(s) - 1)) ELSE s

strip(s) == RStrip(LStrip(s))

\* One character of output text.
Ch(c) == [kind |-> "char", c |-> c, n |-> 0]
NL == Ch("\n")
Chars(s) == [i \in 1..Len(s) |-> Ch(s[i])]

\* The literal "=== Page n ===" (json) and "--- Page n ---" (console).
JsonMarker(n) == [kind |-> "=== Page", c |-> "", n |-> n]
ConsoleMarker(n) == [kind |-> "--- Page", c |-> "", n |-> n]

\* Mutant: the label is the zero-based page index.
JsonBlock_ZeroBased(page_number, text) ==
    <<NL, JsonMarker(page_number), NL, NL>> \o Chars(text) \o <<NL>>

\* f"\n=== Page {page_number + 1} ===\n\n" + text + "\n"
JsonBlock(page_number, text) ==
    <<NL, JsonMarker(page_number + 1), NL, NL>> \o Chars(text) \o <<NL>>

\* f"--- Page {page_num + 1} ---\n{text}\n"
ConsoleBlock(page_num, text) ==
    <<ConsoleMarker(page_num + 1), NL>> \o Chars(text) \o <<NL>>

\* "\n".join(text_content)
RECURSIVE Join(_)
Join(list) == IF list = <<>> THEN <<>>
              ELSE IF Len(list) = 1 THEN list[1]
              ELSE list[1] \o <<NL>> \o Join(Tail(list))

Prefixes(s) == { SubSeq(s, 1, k) : k \in 0..Len(s) }

\* ------------------------------------------------------------ file system
NoFile == [exists |-> FALSE, content |-> <<>>]
File(content) == [exists |-> TRUE, content |-> content]
OldFile == File(<<Ch("o"), Ch("l"), Ch("d")>>)

\* ------------------------------------------------------------------ state
VARIABLES
    variant,        \* which program runs: "json" or "console"
    pages,          \* the document: text of page k is pages[k + 1]
    path_exists,    \* os.path.exists(pdf_path)
    pdf_ext,        \* pdf_path.lower().endswith('.pdf')
    args_ok,        \* the command line has the expected shape
    dir_exists,     \* the output directory exists
    out_file,       \* the file at the output path
    pc,             \* position of the run
    run,            \* number of runs started
    pdf_open,       \* the PdfDocument handle is open
    open_pages,     \* page indexes whose PdfPage handle is open
    text_page_open, \* console: the PdfTextPage handle bound to text_page is open
    page_number,    \* loop variable (page_number / page_num)
    extracted_text, \* json: accumulated output text
    text_content,   \* console: list of page blocks
    full_text,      \* console: joined text
    stdout,         \* lines printed to standard output
    stderr,         \* lines printed to standard error
    exit_code,      \* process exit status, -1 while running
    unhandled,      \* an exception left main uncaught
    result,         \* "none", "success" or "failure"
    visited,        \* history: page indexes passed to get_page, in order
    doc_opened,     \* history: PdfDocument(...) was called in this run
    fail_stage,     \* history: the step that raised, "" if none
    init_dir,       \* history: dir_exists in the initial state
    init_file,      \* history: out_file in the initial state
    start_file,     \* history: out_file when the current run started
    first_out       \* history: <<out_file>> after the latest earlier success

inputs == <<variant, pages, path_exists, pdf_ext, args_ok, init_dir, init_file>>
fs == <<dir_exists, out_file>>
handles == <<pdf_open, open_pages, text_page_open>>
texts == <<extracted_text, text_content, full_text>>
console_io == <<stdout, stderr>>
outcome == <<exit_code, unhandled, result>>
hist == <<visited, doc_opened, fail_stage, start_file, first_out>>

vars == <<inputs, fs, pc, run, handles, page_number, texts, console_io, outcome, hist>>

page_count == Len(pages)

Documents == UNION { [1..n -> PageTexts] : n \in 0..MaxPages }

Init ==
    /\ variant \in {"json", "console"}
    /\ pages \in Documents
    /\ path_exists \in BOOLEAN
    /\ pdf_ext \in BOOLEAN
    /\ args_ok \in BOOLEAN
    /\ dir_exists \in BOOLEAN
    /\ out_file \in {NoFile, OldFile}
    /\ (out_file.exists => dir_exists)
    /\ pc = "idle"
    /\ run = 0
    /\ pdf_open = FALSE
    /\ open_pages = {}
    /\ text_page_open = FALSE
    /\ page_number = 0
    /\ extracted_text = <<>>
    /\ text_content = <<>>
    /\ full_text = <<>>
    /\ stdout = <<>>
    /\ stderr = <<>>
    /\ exit_code = -1
    /\ unhandled = FALSE
    /\ result = "none"
    /\ visited = <<>>
    /\ doc_opened = FALSE
    /\ fail_stage = ""
    /\ init_dir = dir_exists
    /\ init_file = out_file
    /\ start_file = out_file
    /\ first_out = <<>>

\* The interpreter starts main() of the chosen program.
Start ==
    /\ pc = "idle"
    /\ pc' = "main"
    /\ run' = run + 1
    /\ UNCHANGED <<inputs, fs, handles, page_number, texts, console_io, outcome, hist>>

\* sys.exit(code) or the end of main.
Exit(code) ==
    /\ exit_code' = code
    /\ pc' = "exited"

\* A statement inside a try block raises: control goes to the except clause.
Raise(stage, handler) ==
    /\ fail_stage' = stage
    /\ pc' = handler

\* ------------------------------------------------ src/pdf-parser.py: main
Main_CheckArgs ==
    /\ pc = "main" /\ variant = "json"
    /\ IF ~args_ok
       THEN /\ stdout' = Append(stdout, "Usage: python pdf-parser.py <pdf_path> <output_path>")
            /\ Exit(1)
       ELSE /\ pc' = "j_exists"
            /\ UNCHANGED <<stdout, exit_code>>
    /\ UNCHANGED <<inputs, fs, run, handles, page_number, texts, stderr,
                   unhandled, result, hist>>

\* Mutant: the existence check is missing.
Main_CheckExists_Skipped ==
    /\ pc = "j_exists"
    /\ pc' = "j_ext"
    /\ UNCHANGED <<inputs, fs, run, handles, page_number, texts, console_io,
                   outcome, hist>>


Main_CheckExists ==
    /\ pc = "j_exists"
    /\ IF ~path_exists
       THEN /\ stdout' = Append(stdout, "Error: PDF file not found")
            /\ Exit(1)
       ELSE /\ pc' = "j_ext"
            /\ UNCHANGED <<stdout, exit_code>>
    /\ UNCHANGED <<inputs, fs, run, handles, page_number, texts, stderr,
                   unhandled, result, hist>>

Main_CheckExt ==
    /\ pc = "j_ext"
    /\ IF ~pdf_ext
       THEN /\ stdout' = Append(stdout, "Error: Input file must be a PDF")
            /\ Exit(1)
       ELSE /\ pc' = "j_makedirs"
            /\ UNCHANGED <<stdout, exit_code>>
    /\ UNCHANGED <<inputs, fs, run, handles, page_number, texts, stderr,
                   unhandled, result, hist>>

\* os.makedirs is outside every try block: when it raises, the exception
\* leaves main and the interpreter prints a traceback and exits with 1.
\* An empty dirname is the current directory, which exists.
Main_MakeDirs ==
    /\ pc = "j_makedirs"
    /\ IF dir_exists
       THEN /\ pc' = "x_open"
            /\ UNCHANGED <<dir_exists, stderr, exit_code, unhandled, fail_stage>>
       ELSE \E ok \in BOOLEAN :
              IF ok
              THEN /\ dir_exists' = TRUE
                   /\ pc' = "x_open"
                   /\ UNCHANGED <<stderr, exit_code, unhandled, fail_stage>>
              ELSE /\ unhandled' = TRUE
                   /\ stderr' = Append(stderr, "Traceback")
                   /\ fail_stage' = "makedirs"
                   /\ Exit(1)
                   /\ UNCHANGED dir_exists
    /\ UNCHANGED <<inputs, out_file, run, handles, page_number, texts, stdout,
                   result, visited, doc_opened, start_file, first_out>>

\* ------------------------------- src/pdf-parser.py: extract_text_from_pdf

\* Mutant: the output file is opened for writing before the document.
Extract_Open_OutputFirst ==
    /\ pc = "x_open"
    /\ doc_opened' = TRUE
    /\ out_file' = File(<<>>)
    /\ \E ok \in BOOLEAN :
         IF ok
         THEN /\ pdf_open' = TRUE
              /\ pc' = "x_meta"
              /\ UNCHANGED fail_stage
         ELSE /\ fail_stage' = "open"
              /\ pc' = "x_except"
              /\ UNCHANGED pdf_open
    /\ UNCHANGED <<inputs, dir_exists, run, open_pages, text_page_open, page_number,
                   texts, console_io, outcome, visited, start_file, first_out>>


Extract_Open ==
    /\ pc = "x_open"
    /\ doc_opened' = TRUE
    /\ \E ok \in BOOLEAN :
         IF ok
         THEN /\ pdf_open' = TRUE
              /\ pc' = "x_meta"
              /\ UNCHANGED fail_stage
         ELSE /\ Raise("open", "x_except")
              /\ UNCHANGED pdf_open
    /\ UNCHANGED <<inputs, fs, run, open_pages, text_page_open, page_number, texts,
                   console_io, outcome, visited, start_file, first_out>>

\* get_metadata_dict(), len(pdf), the two progress prints, extracted_text = "".
Extract_Metadata ==
    /\ pc = "x_meta"
    /\ \E ok \in BOOLEAN :
         IF ok
         THEN /\ stdout' = stdout \o <<"Processing PDF", "Pages">>
              /\ extracted_text' = <<>>
              /\ page_number' = 0
              /\ pc' = "x_loop"
              /\ UNCHANGED fail_stage
         ELSE /\ Raise("metadata", "x_except")
              /\ UNCHANGED <<stdout, extracted_text, page_number>>
    /\ UNCHANGED <<inputs, fs, run, handles, text_content, full_text, stderr,
                   outcome, visited, doc_opened, start_file, first_out>>

Extract_GetPage ==
    /\ pc = "x_loop" /\ page_number < page_count
    /\ \E ok \in BOOLEAN :
         IF ok
         THEN /\ open_pages' = open_pages \cup {page_number}
              /\ visited' = Append(visited, page_number)
              /\ pc' = "x_text"
              /\ UNCHANGED fail_stage
         ELSE /\ Raise("get_page", "x_except")
              /\ UNCHANGED <<open_pages, visited>>
    /\ UNCHANGED <<inputs, fs, run, pdf_open, text_page_open, page_number, texts,
                   console_io, outcome, doc_opened, start_file, first_out>>

\* text = page.get_textpage().get_text_range(); append the block if text.strip().
Extract_GetText ==
    /\ pc = "x_text"
    /\ \E ok \in BOOLEAN :
         IF ok
         THEN LET text == pages[page_number + 1] IN
              /\ extracted_text' = IF strip(text) # <<>>
                                   THEN extracted_text \o JsonBlock(page_number, text)
                                   ELSE extracted_text
              /\ pc' = "x_close_page"
              /\ UNCHANGED fail_stage
         ELSE /\ Raise("get_text", "x_except")
              /\ UNCHANGED extracted_text
    /\ UNCHANGED <<inputs, fs, run, handles, page_number, text_content, full_text,
                   console_io, outcome, visited, doc_opened, start_file, first_out>>

Extract_ClosePage ==
    /\ pc = "x_close_page"
    /\ open_pages' = open_pages \ {page_number}
    /\ page_number' = page_number + 1
    /\ pc' = "x_loop"
    /\ UNCHANGED <<inputs, fs, run, pdf_open, text_page_open, texts, console_io,
                   outcome, hist>>

Extract_CloseDoc ==
    /\ pc = "x_loop" /\ page_number >= page_count
    /\ pdf_open' = FALSE
    /\ pc' = "x_open_out"
    /\ UNCHANGED <<inputs, fs, run, open_pages, text_page_open, page_number, texts,
                   console_io, outcome, hist>>

\* Mutant: the output file is opened in append mode.
Extract_OpenOut_Append ==
    /\ pc = "x_open_out"
    /\ \E ok \in BOOLEAN :
         IF ok
         THEN /\ out_file' = File(out_file.content)
              /\ pc' = "x_write"
              /\ UNCHANGED fail_stage
         ELSE /\ fail_stage' = "open_out"
              /\ pc' = "x_except"
              /\ UNCHANGED out_file
    /\ UNCHANGED <<inputs, dir_exists, run, handles, page_number, texts, console_io,
                   outcome, visited, doc_opened, start_file, first_out>>

\* open(output_path, 'w'): creates the file or truncates it.
Extract_OpenOut ==
    /\ pc = "x_open_out"
    /\ \E ok \in BOOLEAN :
         IF ok
         THEN /\ out_file' = File(<<>>)
              /\ pc' = "x_write"
              /\ UNCHANGED fail_stage
         ELSE /\ Raise("open_out", "x_except")
              /\ UNCHANGED out_file
    /\ UNCHANGED <<inputs, dir_exists, run, handles, page_number, texts, console_io,
                   outcome, visited, doc_opened, start_file, first_out>>

\* f.write(extracted_text) and the close at the end of the with block; when
\* either raises, some prefix of the text has reached the file.
Extract_Write ==
    /\ pc = "x_write"
    /\ \E ok \in BOOLEAN :
         IF ok
         THEN /\ out_file' = File(out_file.content \o extracted_text)
              /\ result' = "success"
              /\ pc' = "j_print"
              /\ UNCHANGED fail_stage
         ELSE /\ \E part \in Prefixes(extracted_text) :
                   out_file' = File(out_file.content \o part)
              /\ Raise("write", "x_except")
              /\ UNCHANGED result
    /\ UNCHANGED <<inputs, dir_exists, run, handles, page_number, texts, console_io,
                   exit_code, unhandled, visited, doc_opened, start_file, first_out>>

\* except Exception as e: return {'success': False, ...}
Extract_Except ==
    /\ pc = "x_except"
    /\ result' = "failure"
    /\ pc' = "j_print"
    /\ UNCHANGED <<inputs, fs, run, handles, page_number, texts, console_io,
                   exit_code, unhandled, hist>>

\* print(json.dumps(result)); sys.exit(1) unless result['success'].
Main_PrintResult ==
    /\ pc = "j_print"
    /\ stdout' = Append(stdout, "JSON")
    /\ Exit(IF result = "success" THEN 0 ELSE 1)
    /\ UNCHANGED <<inputs, fs, run, handles, page_number, texts, stderr,
                   unhandled, result, hist>>

\* ------------------------------------------ src/scripts/pdf_parser.py: main
\* parser.parse_args() ends the process with status 2 on a malformed command
\* line (SystemExit is not an Exception, so the except clause lets it pass).
PMain_ParseArgs ==
    /\ pc = "main" /\ variant = "console"
    /\ IF ~args_ok
       THEN /\ stdout' = Append(stdout, "Starting PDF parser...")
            /\ stderr' = Append(stderr, "usage")
            /\ Exit(2)
       ELSE /\ stdout' = stdout \o <<"Starting PDF parser...", "PDF path", "Output directory",
                                     "Arguments parsed successfully">>
            /\ pc' = "p_exists"
            /\ UNCHANGED <<stderr, exit_code>>
    /\ UNCHANGED <<inputs, fs, run, handles, page_number, texts, unhandled, result, hist>>

PMain_CheckExists ==
    /\ pc = "p_exists"
    /\ IF ~path_exists
       THEN /\ stderr' = Append(stderr, "Error: PDF file not found")
            /\ Exit(1)
            /\ UNCHANGED stdout
       ELSE /\ stdout' = stdout \o <<"PDF file found", "Starting PDF parsing...">>
            /\ pc' = "p_mkdir"
            /\ UNCHANGED <<stderr, exit_code>>
    /\ UNCHANGED <<inputs, fs, run, handles, page_number, texts, unhandled, result, hist>>

\* print(f"PDF parsed successfully. ..."), then main returns.
PMain_Finish ==
    /\ pc = "p_finish"
    /\ stdout' = Append(stdout, "PDF parsed successfully")
    /\ Exit(0)
    /\ UNCHANGED <<inputs, fs, run, handles, page_number, texts, stderr,
                   unhandled, result, hist>>

\* ------------------------------------- src/scripts/pdf_parser.py: parse_pdf
\* Path(output_dir).mkdir(parents=True, exist_ok=True), inside the try block.
Parse_MkDir ==
    /\ pc = "p_mkdir"
    /\ \E ok \in BOOLEAN :
         IF ok \/ dir_exists
         THEN /\ dir_exists' = TRUE
              /\ stdout' = stdout \o <<"Creating output directory", "Processing PDF",
                                       "Opening PDF file...">>
              /\ pc' = "p_open"
              /\ UNCHANGED fail_stage
         ELSE /\ stdout' = Append(stdout, "Creating output directory")
              /\ Raise("makedirs", "p_except")
              /\ UNCHANGED dir_exists
    /\ UNCHANGED <<inputs, out_file, run, handles, page_number, texts, stderr,
                   outcome, visited, doc_opened, start_file, first_out>>

\* pdfium.PdfDocument(pdf_path), text_content = [], total_pages = len(pdf).
Parse_Open ==
    /\ pc = "p_open"
    /\ doc_opened' = TRUE
    /\ \E ok \in BOOLEAN :
         IF ok
         THEN /\ pdf_open' = TRUE
              /\ text_content' = <<>>
              /\ page_number' = 0
              /\ stdout' = stdout \o <<"PDF opened successfully", "Found pages to process">>
              /\ pc' = "p_loop"
              /\ UNCHANGED fail_stage
         ELSE /\ Raise("open", "p_except")
              /\ UNCHANGED <<pdf_open, text_content, page_number, stdout>>
    /\ UNCHANGED <<inputs, fs, run, open_pages, text_page_open, extracted_text,
                   full_text, stderr, outcome, visited, start_file, first_out>>

Parse_GetPage ==
    /\ pc = "p_loop" /\ page_number < page_count
    /\ stdout' = Append(stdout, "Processing page")
    /\ \E ok \in BOOLEAN :
         IF ok
         THEN /\ open_pages' = open_pages \cup {page_number}
              /\ visited' = Append(visited, page_number)
              /\ pc' = "p_textpage"
              /\ UNCHANGED fail_stage
         ELSE /\ Raise("get_page", "p_except")
              /\ UNCHANGED <<open_pages, visited>>
    /\ UNCHANGED <<inputs, fs, run, pdf_open, text_page_open, page_number, texts,
                   stderr, outcome, doc_opened, start_file, first_out>>

Parse_GetTextPage ==
    /\ pc = "p_textpage"
    /\ \E ok \in BOOLEAN :
         IF ok
         THEN /\ text_page_open' = TRUE
              /\ pc' = "p_text"
              /\ UNCHANGED fail_stage
         ELSE /\ Raise("get_textpage", "p_except")
              /\ UNCHANGED text_page_open
    /\ UNCHANGED <<inputs, fs, run, pdf_open, open_pages, page_number, texts,
                   console_io, outcome, visited, doc_opened, start_file, first_out>>

\* text = text_page.get_text_range(); the block is appended for every page.
Parse_GetText ==
    /\ pc = "p_text"
    /\ \E ok \in BOOLEAN :
         IF ok
         THEN /\ text_content' = Append(text_content,
                                        ConsoleBlock(page_number, pages[page_number + 1]))
              /\ pc' = "p_close_textpage"
              /\ UNCHANGED fail_stage
         ELSE /\ Raise("get_text", "p_except")
              /\ UNCHANGED text_content
    /\ UNCHANGED <<inputs, fs, run, handles, page_number, extracted_text, full_text,
                   console_io, outcome, visited, doc_opened, start_file, first_out>>

Parse_CloseTextPage ==
    /\ pc = "p_close_textpage"
    /\ text_page_open' = FALSE
    /\ pc' = "p_close_page"
    /\ UNCHANGED <<inputs, fs, run, pdf_open, open_pages, page_number, texts,
                   console_io, outcome, hist>>

Parse_ClosePage ==
    /\ pc = "p_close_page"
    /\ open_pages' = open_pages \ {page_number}
    /\ stdout' = Append(stdout, "Page completed")
    /\ page_number' = page_number + 1
    /\ pc' = "p_loop"
    /\ UNCHANGED <<inputs, fs, run, pdf_open, text_page_open, texts, stderr,
                   outcome, hist>>

\* pdf.close(), full_text = "\n".join(text_content).
Parse_CloseDoc ==
    /\ pc = "p_loop" /\ page_number >= page_count
    /\ pdf_open' = FALSE
    /\ full_text' = Join(text_content)
    /\ stdout' = stdout \o <<"Closing PDF file...", "Combined text length", "Saving to">>
    /\ pc' = "p_open_out"
    /\ UNCHANGED <<inputs, fs, run, open_pages, text_page_open, page_number,
                   extracted_text, text_content, stderr, outcome, hist>>

\* open(output_file, 'w'): creates the file or truncates it.
Parse_OpenOut ==
    /\ pc = "p_open_out"
    /\ \E ok \in BOOLEAN :
         IF ok
         THEN /\ out_file' = File(<<>>)
              /\ pc' = "p_write"
              /\ UNCHANGED fail_stage
         ELSE /\ Raise("open_out", "p_except")
              /\ UNCHANGED out_file
    /\ UNCHANGED <<inputs, dir_exists, run, handles, page_number, texts, console_io,
                   outcome, visited, doc_opened, start_file, first_out>>

\* f.write(full_text) and the close at the end of the with block; when either
\* raises, some prefix of the text has reached the file.
Parse_Write ==
    /\ pc = "p_write"
    /\ \E ok \in BOOLEAN :
         IF ok
         THEN /\ out_file' = File(out_file.content \o full_text)
              /\ stdout' = Append(stdout, "File saved successfully")
              /\ result' = "success"
              /\ pc' = "p_finish"
              /\ UNCHANGED fail_stage
         ELSE /\ \E part \in Prefixes(full_text) :
                   out_file' = File(out_file.content \o part)
              /\ Raise("write", "p_except")
              /\ UNCHANGED <<stdout, result>>
    /\ UNCHANGED <<inputs, dir_exists, run, handles, page_number, texts, stderr,
                   exit_code, unhandled, visited, doc_opened, start_file, first_out>>

\* except Exception: print the error and the traceback to stderr, sys.exit(1).
Parse_Except ==
    /\ pc = "p_except"
    /\ stderr' = stderr \o <<"Error parsing PDF", "Traceback">>
    /\ result' = "failure"
    /\ Exit(1)
    /\ UNCHANGED <<inputs, fs, run, handles, page_number, texts, stdout,
                   unhandled, hist>>

\* ------------------------------------------------------------- next run
\* The process is gone; the same command is run again on the same file system.
Rerun ==
    /\ pc = "exited" /\ run < MaxRuns
    /\ pc' = "idle"
    /\ first_out' = IF result = "success" THEN <<out_file>> ELSE first_out
    /\ start_file' = out_file
    /\ pdf_open' = FALSE
    /\ open_pages' = {}
    /\ text_page_open' = FALSE
    /\ page_number' = 0
    /\ extracted_text' = <<>>
    /\ text_content' = <<>>
    /\ full_text' = <<>>
    /\ stdout' = <<>>
    /\ stderr' = <<>>
    /\ exit_code' = -1
    /\ unhandled' = FALSE
    /\ result' = "none"
    /\ visited' = <<>>
    /\ doc_opened' = FALSE
    /\ fail_stage' = ""
    /\ UNCHANGED <<inputs, fs, run>>

Next ==
    \/ Start
    \/ Main_CheckArgs
    \/ Main_CheckExists
    \/ Main_CheckExt
    \/ Main_MakeDirs
    \/ Extract_Open
    \/ Extract_Metadata
    \/ Extract_GetPage
    \/ Extract_GetText
    \/ Extract_ClosePage
    \/ Extract_CloseDoc
    \/ Extract_OpenOut
    \/ Extract_Write
    \/ Extract_Except
    \/ Main_PrintResult
    \/ PMain_ParseArgs
    \/ PMain_CheckExists
    \/ Parse_MkDir
    \/ Parse_Open
    \/ Parse_GetPage
    \/ Parse_GetTextPage
    \/ Parse_GetText
    \/ Parse_CloseTextPage
    \/ Parse_ClosePage
    \/ Parse_CloseDoc
    \/ Parse_OpenOut
    \/ Parse_Write
    \/ Parse_Except
    \/ PMain_Finish
    \/ Rerun

Spec == Init /\ [][Next]_vars

\* ================================================================ claims
\* Helpers of the properties below.
IsMarker(t) == t.kind # "char"
Markers(content) == SelectSeq(content, IsMarker)
MarkerCount(content, n) ==
    Cardinality({ i \in DOMAIN content : IsMarker(content[i]) /\ content[i].n = n })
NonEmptyPage(k) == strip(pages[k]) # <<>>
Succeeded == pc = "exited" /\ result = "success"
\* The extraction call has ended (returned a result, or ended the process).
CallEnded == result # "none"

\* The text a complete run of the chosen program writes for the document.
RECURSIVE JsonText(_)
JsonText(k) == IF k = 0 THEN <<>>
               ELSE JsonText(k - 1) \o
                    (IF NonEmptyPage(k)
                     THEN <<NL, JsonMarker(k), NL, NL>> \o Chars(pages[k]) \o <<NL>>
                     ELSE <<>>)
RECURSIVE ConsoleText(_)
ConsoleText(k) == IF k = 0 THEN <<>>
                  ELSE (IF k = 1 THEN <<>> ELSE ConsoleText(k - 1) \o <<NL>>) \o
                       <<ConsoleMarker(k), NL>> \o Chars(pages[k]) \o <<NL>>
CombinedText == IF variant = "json" THEN JsonText(page_count) ELSE ConsoleText(page_count)

\* C1 (as claimed): after a successful extraction, in both programs, the
\* output holds exactly one marker for each page with non-empty trimmed text
\* and none for a page with empty trimmed text, and empty pages add no content.
C1_OneMarkerPerNonEmptyPage ==
    Succeeded =>
        /\ \A k \in 1..page_count :
              MarkerCount(out_file.content, k) = IF NonEmptyPage(k) THEN 1 ELSE 0
        /\ ((\A k \in 1..page_count : ~NonEmptyPage(k)) => out_file.content = <<>>)

\* C2 (as claimed): when the extraction call has ended, on success or on
\* failure at any step, the Document handle and every Page handle are released.
C2_HandlesReleased ==
    CallEnded => (~pdf_open /\ open_pages = {})

\* C3 (as claimed): every failure after input validation is caught and becomes
\* a failure result (json) or a printed error (console) with exit code 1; no
\* failure leaves the program as an unhandled exception.
C3_FailuresCaught ==
    (pc = "exited" /\ fail_stage # "") =>
        /\ ~unhandled
        /\ exit_code = 1
        /\ result = "failure"

\* C4 (as claimed): in both programs a path not ending in .pdf never reaches
\* the document-open step and the run exits with 1.
C4_NonPdfRejected ==
    (args_ok /\ ~pdf_ext) =>
        /\ ~doc_opened
        /\ (pc = "exited" => exit_code = 1)

\* C5: in both programs, when the supplied PDF path does not exist, no document
\* is opened, the output directory and the output file are left as they were,
\* and the run ends with exit code 1 and a failure message.
C5_MissingInput ==
    (args_ok /\ ~path_exists) =>
        /\ ~doc_opened
        /\ dir_exists = init_dir
        /\ out_file = init_file
        /\ (pc = "exited" =>
              /\ exit_code = 1
              /\ IF variant = "json"
                 THEN stdout = <<"Error: PDF file not found">>
                 ELSE stderr = <<"Error: PDF file not found">>)
C5_Witness ==
    args_ok /\ ~path_exists /\ pc = "exited" /\ run = MaxRuns /\ init_file = OldFile

\* C6 (as claimed): after a run, the output file holds either the full
\* combined text or what it held before the run.
C6_FullOrUntouched ==
    pc = "exited" => (out_file = start_file \/ out_file = File(CombinedText))

\* C6 (amended): the output file is touched only after every page has been
\* extracted and the document closed; a run that fails anywhere but in the
\* write leaves the file as it was; a run that fails in the write leaves a
\* prefix of the combined text and reports failure; a successful run leaves
\* the full combined text.
C6_WriteLastOrPrefix ==
    /\ (out_file # start_file =>
          /\ ~pdf_open /\ open_pages = {}
          /\ visited = [i \in 1..page_count |-> i - 1]
          /\ pc \in {"x_write", "x_except", "j_print", "p_write", "p_except",
                     "p_finish", "exited"})
    /\ ((pc = "exited" /\ result # "success" /\ fail_stage # "write") =>
          out_file = start_file)
    /\ ((pc = "exited" /\ fail_stage = "write") =>
          /\ out_file.exists
          /\ out_file.content \in Prefixes(CombinedText)
          /\ exit_code = 1)
    /\ (Succeeded => out_file = File(CombinedText))
C6_Witness ==
    /\ pc = "exited" /\ fail_stage = "write"
    /\ start_file = OldFile
    /\ out_file.content # CombinedText
    /\ out_file.content # <<>>

\* C7 (as claimed): in the json program, a run that completes the extraction
\* call prints exactly one line, the JSON result, to standard output.
C7_StdoutIsOneJsonLine ==
    (variant = "json" /\ pc = "exited" /\ CallEnded) => stdout = <<"JSON">>

\* C8 (as claimed): a run ends with status 0 exactly when the full output
\* file was written, and with 1 on a missing file, a non-.pdf extension or an
\* extraction error.
C8_ExitStatus ==
    (pc = "exited" /\ args_ok) =>
        /\ (exit_code = 0 <=> (result = "success" /\ out_file = File(CombinedText)))
        /\ ((~path_exists \/ ~pdf_ext \/ fail_stage # "") => exit_code = 1)

\* C9: pages are fetched in the order 0, 1, 2, ... without skipping or
\* repeating, all of them in a successful run; the marker labels of the text
\* built so far and of the written file are strictly increasing, name pages
\* already fetched, and in the written file the marker labelled N is followed
\* by the text of page index N - 1.
StrictlyIncreasing(labels) ==
    \A i \in 1..(Len(labels) - 1) : labels[i].n < labels[i + 1].n
BuiltText == IF variant = "json" THEN extracted_text ELSE Join(text_content)
\* Every label names a page that has been fetched.
LabelsFetched(labels) ==
    \A i \in DOMAIN labels : \E j \in DOMAIN visited : labels[i].n = visited[j] + 1
\* The marker at position i is followed, after its newlines, by text.
FollowedBy(content, i, skip, text) ==
    /\ i + skip + Len(text) <= Len(content)
    /\ SubSeq(content, i + skip + 1, i + skip + Len(text)) = Chars(text)
MarkersOrdered(labels) == StrictlyIncreasing(labels) /\ LabelsFetched(labels)
C9_PageOrder ==
    /\ visited = [i \in 1..Len(visited) |-> i - 1]
    /\ Len(visited) <= page_count
    /\ (CallEnded /\ result = "success" => Len(visited) = page_count)
    /\ MarkersOrdered(Markers(BuiltText))
    /\ (Succeeded =>
          /\ MarkersOrdered(Markers(out_file.content))
          /\ \A i \in DOMAIN out_file.content :
                LET t == out_file.content[i] IN
                IsMarker(t) =>
                   /\ t.n \in 1..page_count
                   /\ FollowedBy(out_file.content, i,
                                 IF variant = "json" THEN 2 ELSE 1, pages[t.n]))
C9_Witness ==
    /\ Succeeded
    /\ page_count = MaxPages
    /\ Len(Markers(out_file.content)) = MaxPages
    /\ pages[1] # pages[2]

\* C10: a successful run after an earlier successful run on the same input
\* and output path leaves the output file exactly as the earlier run left it,
\* whatever the file held at first.
C10_Idempotent ==
    (Succeeded /\ first_out # <<>>) => out_file = first_out[1]
C10_Witness ==
    /\ Succeeded /\ first_out # <<>>
    /\ init_file = OldFile
    /\ out_file.content # <<>>
====
